---- MODULE Spec2Model ----
(***************************************************************************)
(* Dice-notation engine of telegram-dice-maestro-oxide.                    *)
(*                                                                         *)
(*   src/src/parser.rs  the combinator parser (parse_roll)                 *)
(*   src/src/dice.rs    RollSettings formatting, Roll, RollResults, their  *)
(*                      Display, the regular-expression parser             *)
(*   src/src/main.rs    handle_roll                                        *)
(*                                                                         *)
(* Text is a sequence of one-character strings.  Option<T> is a sequence   *)
(* of length at most one: None is the empty one, Some(x) holds x.          *)
(***************************************************************************)
EXTENDS Integers, Sequences, FiniteSets, TLC

VARIABLES pc, input, base, parsed, settings, roll_type, results, shown, replies,
          parsed_re, send_json

vars == <<pc, input, base, parsed, settings, roll_type, results, shown, replies,
          parsed_re, send_json>>

None == <<>>
Some(x) == <<x>>

(***************************************************************************)
(* Characters                                                              *)
(***************************************************************************)
DigitChars == <<"0", "1", "2", "3", "4", "5", "6", "7", "8", "9">>

Digits == {DigitChars[i] : i \in 1..Len(DigitChars)}

\* nom's multispace0 eats space, tab, carriage return and line feed.
MultispaceChars == {" ", "\t", "\r", "\n"}

\* str::trim removes Unicode White_Space, which also holds the form feed.
TrimChars == MultispaceChars \cup {"\f"}

DigitValue(c) == (CHOOSE i \in 1..Len(DigitChars) : DigitChars[i] = c) - 1

DigitChar(v) == DigitChars[v + 1]

(***************************************************************************)
(* nom combinators as used by parser.rs.  A parse result is                *)
(*   [ok |-> TRUE,  rest |-> remaining text, out |-> value]   or           *)
(*   [ok |-> FALSE, at   |-> text where the parser failed].                *)
(* panic is TRUE when an expect() inside the parser failed instead.        *)
(***************************************************************************)
POk(rest, out) == [ok |-> TRUE, rest |-> rest, out |-> out, panic |-> FALSE]

PErr(at) == [ok |-> FALSE, at |-> at, panic |-> FALSE]

\* expect("parsing to succeed") / expect("to parse") on an Err
PPanic == [ok |-> FALSE, at |-> <<>>, panic |-> TRUE]

RECURSIVE multispace0(_)
multispace0(i) ==
    IF i # <<>> /\ Head(i) \in MultispaceChars THEN multispace0(Tail(i)) ELSE i

one_of(set, i) ==
    IF i # <<>> /\ Head(i) \in set THEN POk(Tail(i), Head(i)) ELSE PErr(i)

\* delimited(multispace0, inner, multispace0); every inner parser of
\* parser.rs is one_of(set), bare or under consumed().
ws(set, i) ==
    LET r == one_of(set, multispace0(i))
    IN  IF r.ok THEN POk(multispace0(r.rest), r.out) ELSE r

\* Mutant: a digit parser that does not eat the whitespace around the digit.
single_decimal_no_ws(i) == one_of(Digits, i)

single_decimal(i) == ws(Digits, i)

\* many_m_n(min, max, single_decimal): the loop "for count in 0..max".
RECURSIVE many_m_n(_, _, _, _, _)
many_m_n(min, max, i, count, res) ==
    IF count >= max THEN POk(i, res)
    ELSE LET r == single_decimal(i)
         IN  IF r.ok THEN many_m_n(min, max, r.rest, count + 1, Append(res, r.out))
             ELSE IF count < min THEN r
             ELSE POk(i, res)

\* String::parse::<u32>() of a run of decimal digits.
RECURSIVE ParseDigits(_, _)
ParseDigits(chars, acc) ==
    IF chars = <<>> THEN acc
    ELSE ParseDigits(Tail(chars), acc * 10 + DigitValue(Head(chars)))

\* u32::MAX, 4294967295, as decimal text.
U32_MAX_TEXT == <<"4", "2", "9", "4", "9", "6", "7", "2", "9", "5">>

I32_MAX == 2147483647

RECURSIVE StripZeros(_)
StripZeros(chars) ==
    IF Len(chars) > 1 /\ Head(chars) = "0" THEN StripZeros(Tail(chars)) ELSE chars

\* a > b for two digit texts of the same length
RECURSIVE DigitsGreater(_, _)
DigitsGreater(a, b) ==
    /\ a # <<>>
    /\ \/ DigitValue(Head(a)) > DigitValue(Head(b))
       \/ Head(a) = Head(b) /\ DigitsGreater(Tail(a), Tail(b))

ExceedsU32(chars) ==
    LET c == StripZeros(chars)
    IN  \/ Len(c) > Len(U32_MAX_TEXT)
        \/ Len(c) = Len(U32_MAX_TEXT) /\ DigitsGreater(c, U32_MAX_TEXT)

\* str::parse::<u32>(): an Err (None here) on the empty text and on overflow.
parse_u32(chars) ==
    IF chars = <<>> \/ ExceedsU32(chars) THEN None
    ELSE Some(ParseDigits(chars, 0))

\* str::parse::<i32>() of a sign and a magnitude.
parse_i32(sign, magnitude) ==
    LET v == IF sign = "-" THEN 0 - magnitude ELSE magnitude
    IN  IF v > I32_MAX \/ v < 0 - I32_MAX - 1 THEN None ELSE Some(v)

decimal(i, min, max) ==
    LET r == many_m_n(min, max, i, 0, <<>>)
    IN  IF ~r.ok THEN r
        ELSE IF parse_u32(r.out) = None THEN PPanic
        ELSE POk(r.rest, parse_u32(r.out)[1])

dice_seperator(i) == ws({"d", "D"}, i)

modifier_separator(i) == ws({"+", "-"}, i)

\* The digit bound of "let digits = |i| decimal::<u32>(i, 1, 4)".
MaxFieldDigits == 4

\* Mutant: a numeric field may have no digit at all.
digits_optional(i) == decimal(i, 0, MaxFieldDigits)

\* Mutant: numeric fields of up to five digits.
digits_five(i) == decimal(i, 1, MaxFieldDigits + 1)

digits(i) == decimal(i, 1, MaxFieldDigits)

\* (&modifier_separator, &digits).parse(remaining), then
\* format!("{}{}", modifier_sign, modifier).parse::<i32>()
modifier_parse(remaining) ==
    LET s == modifier_separator(remaining)
    IN  IF ~s.ok THEN s
        ELSE LET m == digits(s.rest)
             IN  IF ~m.ok THEN m
                 ELSE IF parse_i32(s.out, m.out) = None THEN PPanic
                 ELSE POk(m.rest, parse_i32(s.out, m.out)[1])

parse_roll_inner(i) ==
    LET number == digits(i)
    IN  IF ~number.ok THEN number
        ELSE LET sep == dice_seperator(number.rest)
             IN  IF ~sep.ok THEN sep
                 ELSE LET sides == digits(sep.rest)
                      IN  IF ~sides.ok THEN sides
                          ELSE LET m == modifier_parse(sides.rest)
                               IN  IF m.panic THEN m ELSE
                                   POk(IF m.ok THEN m.rest ELSE sides.rest,
                                       [number   |-> number.out,
                                        sides    |-> sides.out,
                                        modifier |-> IF m.ok THEN Some(m.out) ELSE None,
                                        label    |-> None])

\* Mutant: the check for overflow digits is missing.
many1_never(remaining) == FALSE

\* consumed(consumed(many1(single_decimal)))(remaining).is_ok()
many1_is_ok(remaining) == single_decimal(remaining).ok

RECURSIVE trim_start(_)
trim_start(s) ==
    IF s # <<>> /\ Head(s) \in TrimChars THEN trim_start(Tail(s)) ELSE s

RECURSIVE trim_end(_)
trim_end(s) ==
    IF s # <<>> /\ s[Len(s)] \in TrimChars
    THEN trim_end(SubSeq(s, 1, Len(s) - 1)) ELSE s

trim(s) == trim_end(trim_start(s))

ROk(s) == [ok |-> TRUE, settings |-> s]

\* ParseRollError::ParseError(String) and ParseRollError::CannotBeZero(String)
RErr(kind, text) == [ok |-> FALSE, err |-> kind, text |-> Some(text)]

\* ParseRollError::TooBig, a variant with no field
RTooBig == [ok |-> FALSE, err |-> "TooBig", text |-> None]

\* The call did not return: an expect() panicked.
RPanic == [ok |-> FALSE, err |-> "Panic", text |-> None]

\* Mutant: only the number of dice is checked against zero.
zero_check_number_only(s) == s.number = 0

\* "if result.number == 0 || result.sides == 0"
zero_check(s) == s.number = 0 \/ s.sides = 0

\* Mutant: the label is stored without being trimmed.
label_untrimmed(remaining) ==
    IF trim(remaining) # <<>> THEN Some(remaining) ELSE None

\* "let remaining = remaining.trim(); if !remaining.is_empty() { label = Some(..) }"
label_of(remaining) ==
    IF trim(remaining) # <<>> THEN Some(trim(remaining)) ELSE None

\* Mutant: CannotBeZero carries the unparsed rest instead of the input.
parse_roll_zero_rest(i) ==
    LET r == parse_roll_inner(i)
    IN  IF r.panic THEN RPanic
        ELSE IF ~r.ok THEN RErr("ParseError", r.at)
        ELSE IF zero_check(r.out) THEN RErr("CannotBeZero", r.rest)
        ELSE IF many1_is_ok(r.rest) THEN RTooBig
        ELSE ROk([r.out EXCEPT !.label = label_of(r.rest)])

\* Mutant: the overflow digits are checked before the zero count or sides.
parse_roll_overflow_first(i) ==
    LET r == parse_roll_inner(i)
    IN  IF r.panic THEN RPanic
        ELSE IF ~r.ok THEN RErr("ParseError", r.at)
        ELSE IF many1_is_ok(r.rest) THEN RTooBig
        ELSE IF zero_check(r.out) THEN RErr("CannotBeZero", i)
        ELSE ROk([r.out EXCEPT !.label = label_of(r.rest)])

\* parse_roll after "parse_roll_inner(input).finish()": r is its result.
parse_roll_checked(i, r) ==
    IF r.panic THEN RPanic
    ELSE IF ~r.ok THEN RErr("ParseError", r.at)
    ELSE IF zero_check(r.out) THEN RErr("CannotBeZero", i)
    ELSE IF many1_is_ok(r.rest) THEN RTooBig
    ELSE ROk([r.out EXCEPT !.label = label_of(r.rest)])

parse_roll(i) == parse_roll_checked(i, parse_roll_inner(i))

(***************************************************************************)
(* dice.rs: RollSettings formatting                                        *)
(***************************************************************************)
\* ToString for a non-negative integer: decimal, no leading zeros.
RECURSIVE to_string(_)
to_string(n) ==
    IF n < 10 THEN <<DigitChar(n)>>
    ELSE to_string(n \div 10) \o <<DigitChar(n % 10)>>

\* Mutant: the sign of a negative modifier is lost.
format_modifier_plus_only(s) ==
    IF s.modifier = None THEN <<>>
    ELSE LET number == s.modifier[1]
         IN  <<" ", "+", " ">> \o to_string(IF number > 0 THEN number ELSE 0 - number)

format_modifier(s) ==
    IF s.modifier = None THEN <<>>
    ELSE LET number == s.modifier[1]
         IN  IF number > 0 THEN <<" ", "+", " ">> \o to_string(number)
             ELSE <<" ", "-", " ">> \o to_string(0 - number)

format_parameters(s) ==
    to_string(s.number) \o <<"d">> \o to_string(s.sides) \o format_modifier(s)

(***************************************************************************)
(* dice.rs: Roll and RollResults                                           *)
(***************************************************************************)
RollTypes == {"Straight", "Advantage", "Disadvantage"}

\* The sum of rolls[lo..=hi]; addition is associative, so the halves are
\* summed separately.
RECURSIVE SumRange(_, _, _)
SumRange(rolls, lo, hi) ==
    IF lo > hi THEN 0
    ELSE IF lo = hi THEN rolls[lo]
    ELSE LET mid == (lo + hi) \div 2
         IN  SumRange(rolls, lo, mid) + SumRange(rolls, mid + 1, hi)

Sum(rolls) == SumRange(rolls, 1, Len(rolls))

\* Mutant: the modifier is left out of the total.
Roll_new_without_modifier(s, samples) ==
    [settings |-> s, rolls |-> samples, total |-> Sum(samples)]

\* Roll::new; "samples" are the values die.sample(&mut rng) returned, in order.
Roll_new(s, samples) ==
    [settings |-> s,
     rolls    |-> samples,
     total    |-> Sum(samples) + (IF s.modifier # None THEN s.modifier[1] ELSE 0)]

\* The draws Roll::new can make: settings.number samples of Uniform 1..=sides.
Samples(s) == [1..s.number -> 1..s.sides]

\* Mutant: the second attempt is rolled in every mode.
RollResults_new_always_two(s, rt, samples_one, samples_two) ==
    [roll_type |-> rt,
     try_one   |-> Roll_new(s, samples_one),
     try_two   |-> Some(Roll_new(s, samples_two)),
     settings  |-> s]

RollResults_new(s, rt, samples_one, samples_two) ==
    [roll_type |-> rt,
     try_one   |-> Roll_new(s, samples_one),
     try_two   |-> IF rt = "Straight" THEN None ELSE Some(Roll_new(s, samples_two)),
     settings  |-> s]

\* impl Ord for Roll: by total alone.
cmp(a, b) ==
    IF a.total < b.total THEN "Less"
    ELSE IF a.total = b.total THEN "Equal"
    ELSE "Greater"

\* A reference to one of the two attempts of a session.
Ref(r, attempt) ==
    [attempt |-> attempt, roll |-> IF attempt = 1 THEN r.try_one ELSE r.try_two[1]]

\* std::cmp::max(v1, v2): v2 unless v1 compares Greater.
max(v1, v2) == IF cmp(v1.roll, v2.roll) = "Greater" THEN v1 ELSE v2

\* std::cmp::min(v1, v2): v1 unless v1 compares Greater.
min(v1, v2) == IF cmp(v1.roll, v2.roll) = "Greater" THEN v2 ELSE v1

result(r) ==
    CASE r.roll_type = "Straight"     -> Ref(r, 1)
      [] r.roll_type = "Advantage"    -> max(Ref(r, 1), Ref(r, 2))
      [] r.roll_type = "Disadvantage" -> min(Ref(r, 1), Ref(r, 2))

\* Mutant: the two comparisons are the wrong way round.
results_index_reversed(r) ==
    CASE r.roll_type = "Straight"     -> 1
      [] r.roll_type = "Advantage"    ->
            IF cmp(r.try_one, r.try_two[1]) = "Less" THEN 1 ELSE 2
      [] r.roll_type = "Disadvantage" ->
            IF cmp(r.try_one, r.try_two[1]) = "Greater" THEN 1 ELSE 2

results_index(r) ==
    CASE r.roll_type = "Straight"     -> 1
      [] r.roll_type = "Advantage"    ->
            IF cmp(r.try_one, r.try_two[1]) = "Greater" THEN 1 ELSE 2
      [] r.roll_type = "Disadvantage" ->
            IF cmp(r.try_one, r.try_two[1]) = "Less" THEN 1 ELSE 2

(***************************************************************************)
(* dice.rs: Display.  Text is kept in bytes, as String::len counts it; the *)
(* die emoji is one element standing for the four bytes of its encoding.   *)
(***************************************************************************)
DIE == "die"

\* The Some(4000) of impl Display for Roll.
SingleBudget == 4000

\* The Some(2000) of impl Display for RollResults.
DualBudget == 2000

\* Display for a signed integer (the i64 total).
i64_to_string(n) == IF n < 0 THEN <<"-">> \o to_string(0 - n) ELSE to_string(n)

\* rolls[lo..=hi], each in decimal, joined with " + ".  reduce() folds from
\* the left; joining is associative, so the halves are joined separately.
RECURSIVE JoinRange(_, _, _)
JoinRange(rolls, lo, hi) ==
    IF lo = hi THEN to_string(rolls[lo])
    ELSE LET mid == (lo + hi) \div 2
         IN  JoinRange(rolls, lo, mid) \o <<" ", "+", " ">> \o JoinRange(rolls, mid + 1, hi)

\* Roll::format_results; the expect("to not be empty") fails on no rolls.
format_results(roll) ==
    IF roll.rolls = <<>> THEN None
    ELSE Some(JoinRange(roll.rolls, 1, Len(roll.rolls)))

\* Mutant: a list of exactly the budget's length is cut as well.
format_roll_at_budget(roll, truncate) ==
    LET joined == format_results(roll)[1]
        cut == IF truncate # None /\ Len(joined) >= truncate[1]
               THEN SubSeq(joined, 1, truncate[1]) \o <<".", ".", ".">>
               ELSE joined
    IN  <<"(">> \o cut \o <<")">> \o format_modifier(roll.settings)

\* Mutant: the list is never cut.
format_roll_untruncated(roll, truncate) ==
    <<"(">> \o format_results(roll)[1] \o <<")">> \o format_modifier(roll.settings)

\* Roll::format_roll
format_roll(roll, truncate) ==
    LET joined == format_results(roll)[1]
        cut == IF truncate # None /\ Len(joined) > truncate[1]
               THEN SubSeq(joined, 1, truncate[1]) \o <<".", ".", ".">>
               ELSE joined
    IN  <<"(">> \o cut \o <<")">> \o format_modifier(roll.settings)

\* The last line of both displays.
final_line(total) ==
    <<"Y", "o", "u", "r", " ", "f", "i", "n", "a", "l", " ", "r", "o", "l", "l", " ", "i", "s", ":", " ">> \o <<DIE>> \o <<" ", "<", "b", ">">> \o i64_to_string(total) \o <<"<", "/", "b", ">", " ">> \o <<DIE>>

\* impl Display for Roll
Roll_fmt(roll) ==
    <<"P", "a", "r", "a", "m", "e", "t", "e", "r", "s", ":", " ">> \o format_parameters(roll.settings) \o <<"\n">>
    \o <<"R", "o", "l", "l", ":", " ">> \o format_roll(roll, Some(SingleBudget)) \o <<"\n">>
    \o final_line(roll.total)

\* impl Display for RollType
RollType_fmt(rt) ==
    CASE rt = "Straight"     -> <<"S", "t", "r", "a", "i", "g", "h", "t">>
      [] rt = "Advantage"    -> <<"A", "d", "v", "a", "n", "t", "a", "g", "e">>
      [] rt = "Disadvantage" -> <<"D", "i", "s", "a", "d", "v", "a", "n", "t", "a", "g", "e">>

\* writeln!(f, "<s>{}</s>", line) when struck, writeln!(f, "{}", line) otherwise.
attempt_line(line, struck) ==
    IF struck THEN <<"<", "s", ">">> \o line \o <<"<", "/", "s", ">">> \o <<"\n">>
    ELSE line \o <<"\n">>

\* impl Display for RollResults
RollResults_fmt(r) ==
    IF r.roll_type = "Straight" THEN Roll_fmt(r.try_one)
    ELSE LET index == results_index(r)
         IN  <<"P", "a", "r", "a", "m", "e", "t", "e", "r", "s", ":", " ">> \o format_parameters(r.settings) \o <<" ", "w", "i", "t", "h", " ", "<", "u", ">">>
                 \o RollType_fmt(r.roll_type) \o <<"<", "/", "u", ">">> \o <<"\n">>
             \o attempt_line(<<"A", "t", "t", "e", "m", "p", "t", " ", "o", "n", "e", ":", " ">> \o format_roll(r.try_one, Some(DualBudget)),
                             index = 2)
             \o attempt_line(<<"A", "t", "t", "e", "m", "p", "t", " ", "t", "w", "o", ":", " ">> \o format_roll(r.try_two[1], Some(DualBudget)),
                             index = 1)
             \o final_line(result(r).roll.total)

(***************************************************************************)
(* dice.rs and main.rs: the regular-expression parser                      *)
(***************************************************************************)
\* !c.is_whitespace(): char::is_whitespace is Unicode White_Space.
not_whitespace(c) == c \notin TrimChars

\* The longest run of [0-9] at the start of a text.
RECURSIVE digit_run(_)
digit_run(s) ==
    IF s # <<>> /\ Head(s) \in Digits THEN <<Head(s)>> \o digit_run(Tail(s)) ELSE <<>>

\* RE.captures(stripped) for ^([0-9]{1,4})(d|D)([0-9]{1,4})([+-][0-9]{1,4})?$:
\* groups 1, 3 and 4 when the whole text matches.  A group of digits is
\* followed by a character that is no digit or by the end, so it is the
\* whole run.
RE_captures(stripped) ==
    LET g1     == digit_run(stripped)
        a1     == SubSeq(stripped, Len(g1) + 1, Len(stripped))
        sep    == a1 # <<>> /\ Head(a1) \in {"d", "D"}
        g3     == IF sep THEN digit_run(Tail(a1)) ELSE <<>>
        a3     == IF sep THEN SubSeq(a1, Len(g3) + 2, Len(a1)) ELSE a1
        signed == a3 # <<>> /\ Head(a3) \in {"+", "-"}
        g4     == IF signed THEN digit_run(Tail(a3)) ELSE <<>>
        a4     == IF signed THEN SubSeq(a3, Len(g4) + 2, Len(a3)) ELSE a3
    IN  IF /\ Len(g1) \in 1..4
           /\ sep
           /\ Len(g3) \in 1..4
           /\ \/ a3 = <<>>
              \/ signed /\ Len(g4) \in 1..4 /\ a4 = <<>>
        THEN Some([number   |-> g1,
                   sides    |-> g3,
                   modifier |-> IF a3 = <<>> THEN None
                                ELSE Some([sign |-> Head(a3), magnitude |-> g4])])
        ELSE None

\* ParseRollError::InvalidFormat(String) and ParseRollError::CannotBeZero(String)
\* of dice.rs and main.rs.
RegexErr(kind, text) == [ok |-> FALSE, err |-> kind, text |-> Some(text)]

\* parse_roll of dice.rs and main.rs
regex_parse_roll(i) ==
    LET stripped == SelectSeq(i, not_whitespace)
        captures == RE_captures(stripped)
    IN  IF captures = None THEN RegexErr("InvalidFormat", stripped)
        ELSE LET number   == parse_u32(captures[1].number)
                 sides    == parse_u32(captures[1].sides)
                 m        == captures[1].modifier
                 modifier == IF m = None THEN Some(None)
                             ELSE IF parse_i32(m[1].sign, ParseDigits(m[1].magnitude, 0)) = None THEN None
                             ELSE Some(parse_i32(m[1].sign, ParseDigits(m[1].magnitude, 0)))
             IN  IF number = None \/ sides = None \/ modifier = None THEN RPanic
                 ELSE IF number[1] = 0 \/ sides[1] = 0
                      THEN RegexErr("CannotBeZero", stripped)
                 ELSE [ok |-> TRUE,
                       settings |-> [number |-> number[1], sides |-> sides[1],
                                     modifier |-> modifier[1]]]

(***************************************************************************)
(* State machine.  pc is the position of the request being served; the     *)
(* fields a specification does not use keep their initial values.          *)
(***************************************************************************)
NoSettings == [number |-> 1, sides |-> 1, modifier |-> None, label |-> None]

NoParse == [ok |-> FALSE, err |-> "NotParsed", text |-> None]

NoResults == [roll_type |-> "Straight", try_one |-> Roll_new(NoSettings, <<1>>),
              try_two |-> None, settings |-> NoSettings]

(***************************************************************************)
(* SpecRoll: a validated RollSettings and a roll type are rolled once.     *)
(***************************************************************************)
MaxNumber == 2
MaxSides == 3
MaxModifier == 1

RollSettingsSet ==
    {[number |-> n, sides |-> k, modifier |-> m, label |-> None] :
        n \in 1..MaxNumber, k \in 1..MaxSides,
        m \in {None} \cup {Some(v) : v \in (0 - MaxModifier)..MaxModifier}}

InitRoll ==
    /\ pc = "settings"
    /\ settings \in RollSettingsSet
    /\ roll_type \in RollTypes
    /\ input = <<>>
    /\ base = <<>>
    /\ parsed = NoParse
    /\ results = NoResults
    /\ shown = <<>>
    /\ replies = <<>>
    /\ parsed_re = NoParse
    /\ send_json = FALSE

\* How many leading dice of a long roll show the highest face: none, as many
\* as put a list of one-character rolls on a budget and one past it, or all.
WideCounts(s) == {0, 3, 4, s.number}

\* Draws of a long roll: the first k dice show the highest face, the rest 1.
Patterned(s) ==
    {[i \in 1..s.number |-> IF i <= k THEN s.sides ELSE 1] : k \in WideCounts(s)}

\* The draws followed: all of them for a short roll, the patterned for a long.
Draws(s) == IF s.number <= MaxNumber THEN Samples(s) ELSE Patterned(s)

\* RollResults::new(settings, roll_type)
Roll ==
    /\ pc = "settings"
    /\ \E samples_one \in Draws(settings), samples_two \in Draws(settings) :
          results' = RollResults_new(settings, roll_type, samples_one, samples_two)
    /\ pc' = "rolled"
    /\ UNCHANGED <<input, base, parsed, settings, roll_type, shown, replies,
                 parsed_re, send_json>>

NextRoll == Roll

SpecRoll == InitRoll /\ [][NextRoll]_vars

TwoAttempts == pc = "rolled" /\ results.roll_type # "Straight"

\* C1 (as claimed): when the two attempts of an Advantage or Disadvantage
\* session have equal totals, attempt one wins: results_index() is 1 and
\* result() is try_one.
C1_TieSelectsAttemptOne ==
    (TwoAttempts /\ results.try_one.total = results.try_two[1].total)
        => (results_index(results) = 1 /\ result(results).attempt = 1)

\* The attempt that holds the winning total when the totals differ.
Better(rt, one, two) ==
    IF rt = "Advantage"
    THEN (IF one.total > two.total THEN 1 ELSE 2)
    ELSE (IF one.total < two.total THEN 1 ELSE 2)

\* C2: when the two totals differ, result() is the attempt with the greater
\* total under Advantage and with the lesser total under Disadvantage, and
\* results_index() is the number of the attempt that holds that total.
C2_DistinctTotalsSelection ==
    (TwoAttempts /\ results.try_one.total # results.try_two[1].total)
        => LET one == results.try_one
               two == results.try_two[1]
               w   == Better(results.roll_type, one, two)
           IN  /\ result(results).attempt = w
               /\ result(results).roll = (IF w = 1 THEN one ELSE two)
               /\ results_index(results) = w
               /\ results.roll_type = "Advantage"
                    => /\ result(results).roll.total >= one.total
                       /\ result(results).roll.total >= two.total
               /\ results.roll_type = "Disadvantage"
                    => /\ result(results).roll.total <= one.total
                       /\ result(results).roll.total <= two.total

C2_Witness ==
    /\ TwoAttempts
    /\ results.roll_type = "Advantage"
    /\ results.try_two[1].total > results.try_one.total
    /\ results_index(results) = 2

\* The Roll values of the session in `results`.
Attempts == {results.try_one} \cup {results.try_two[i] : i \in 1..Len(results.try_two)}

\* C3: a Roll made from settings with number >= 1 and sides >= 1 has exactly
\* `number` entries, each in 1..sides, and its total is the sum of the
\* entries plus the modifier (0 when there is none).
C3_RollShape ==
    (pc = "rolled" /\ settings.number >= 1 /\ settings.sides >= 1)
        => \A r \in Attempts :
              /\ Len(r.rolls) = settings.number
              /\ \A i \in 1..Len(r.rolls) : r.rolls[i] \in 1..settings.sides
              /\ r.total = Sum(r.rolls)
                            + (IF settings.modifier = None THEN 0 ELSE settings.modifier[1])

C3_Witness ==
    /\ pc = "rolled"
    /\ settings.number = MaxNumber
    /\ settings.modifier # None /\ settings.modifier[1] < 0
    /\ results.try_two # None
    /\ results.try_one.rolls[1] = settings.sides
    /\ results.try_one.total # results.try_two[1].total

(***************************************************************************)
(* SpecParse: one message text is received and parsed.  The texts are the  *)
(* dice expressions over the digits 0 and 9 with at most MaxTotalDigits    *)
(* digits in all, written tight or with whitespace around every character, *)
(* alone or followed by a label.                                           *)
(***************************************************************************)
MaxTotalDigits == 7

InputDigits == {"0", "9"}

DigitRuns(k) == [1..k -> InputDigits]

ModifierTexts(k) ==
    IF k = 0 THEN {<<>>}
    ELSE {<<sign>> \o run : sign \in {"+", "-"}, run \in DigitRuns(k)}

Shapes ==
    {sh \in (1..MaxTotalDigits) \X (1..MaxTotalDigits) \X (0..MaxTotalDigits) :
        sh[1] + sh[2] + sh[3] <= MaxTotalDigits}

Cores(shapes) ==
    UNION {{count \o <<sep>> \o sides \o modifier :
                count \in DigitRuns(sh[1]), sep \in {"d", "D"},
                sides \in DigitRuns(sh[2]), modifier \in ModifierTexts(sh[3])} :
           sh \in shapes}

\* The text with a whitespace character before every character and at the end.
RECURSIVE Spaced(_, _)
Spaced(s, w) == IF s = <<>> THEN <<w>> ELSE <<w, Head(s)>> \o Spaced(Tail(s), w)

Layouts(core) == {core, Spaced(core, " ")}

ParseTails == {<<>>, <<" ", "x", " ">>}

ParseInputs(cores) ==
    {text \o tail : text \in UNION {Layouts(core) : core \in cores},
                    tail \in ParseTails}

InitParse ==
    /\ pc = "received"
    /\ input \in ParseInputs(Cores(Shapes))
    /\ base = <<>>
    /\ parsed = NoParse
    /\ settings = NoSettings
    /\ roll_type = "Straight"
    /\ results = NoResults
    /\ shown = <<>>
    /\ replies = <<>>
    /\ parsed_re = NoParse
    /\ send_json = FALSE

\* RollSettings::from_str(input)
Parse ==
    /\ pc = "received"
    /\ parsed' = parse_roll(input)
    /\ pc' = "parsed"
    /\ UNCHANGED <<input, base, settings, roll_type, results, shown, replies,
                 parsed_re, send_json>>

NextParse == Parse

SpecParse == InitParse /\ [][NextParse]_vars

(***************************************************************************)
(* How a text is written, read off the text itself without the parser:     *)
(* whitespace aside, a run of digits (the count), then 'd' or 'D' and a    *)
(* run of digits (the sides), then a sign and a run of digits (the         *)
(* modifier).                                                              *)
(***************************************************************************)
NotSpace(c) == c \notin MultispaceChars

Squeezed(s) == SelectSeq(s, NotSpace)

RECURSIVE LeadingDigits(_)
LeadingDigits(s) ==
    IF s # <<>> /\ Head(s) \in Digits THEN <<Head(s)>> \o LeadingDigits(Tail(s)) ELSE <<>>

Drop(s, n) == SubSeq(s, n + 1, Len(s))

Written(text) ==
    LET s      == Squeezed(text)
        count  == LeadingDigits(s)
        s1     == Drop(s, Len(count))
        hasSep == s1 # <<>> /\ Head(s1) \in {"d", "D"}
        sides  == IF hasSep THEN LeadingDigits(Tail(s1)) ELSE <<>>
        s2     == IF hasSep THEN Drop(s1, 1 + Len(sides)) ELSE s1
        hasSgn == hasSep /\ sides # <<>> /\ s2 # <<>> /\ Head(s2) \in {"+", "-"}
        mod    == IF hasSgn THEN LeadingDigits(Tail(s2)) ELSE <<>>
    IN  [count |-> count, sep |-> hasSep, sides |-> sides,
         sign |-> IF hasSgn /\ mod # <<>> THEN <<Head(s2)>> ELSE <<>>,
         modifier |-> mod,
         tail |-> IF mod # <<>> THEN Drop(s2, 1 + Len(mod)) ELSE s2]

WellFormed(w) == w.count # <<>> /\ w.sep /\ w.sides # <<>>

AllZero(run) == \A i \in 1..Len(run) : run[i] = "0"

FirstFour(run) == SubSeq(run, 1, IF Len(run) < 4 THEN Len(run) ELSE 4)

\* Every numeric field has at most four digits.
InGrammar(w) ==
    WellFormed(w) /\ Len(w.count) <= 4 /\ Len(w.sides) <= 4 /\ Len(w.modifier) <= 4

Overlong(w) ==
    Len(w.count) > 4 \/ Len(w.sides) > 4 \/ Len(w.modifier) > 4

\* C5: a text that matches the grammar and whose count or sides is zero is
\* rejected with CannotBeZero, with or without a modifier or a label.
C5_ZeroIsCannotBeZero ==
    LET w == Written(input)
    IN  (pc = "parsed" /\ InGrammar(w) /\ (AllZero(w.count) \/ AllZero(w.sides)))
            => (~parsed.ok /\ parsed.err = "CannotBeZero")

C5_Witness ==
    LET w == Written(input)
    IN  /\ pc = "parsed"
        /\ InGrammar(w)
        /\ ~AllZero(w.count) /\ AllZero(w.sides) /\ Len(w.sides) > 1
        /\ w.modifier # <<>> /\ w.tail # <<>>
        /\ parsed = RErr("CannotBeZero", input)

Magnitude(v) == IF v < 0 THEN 0 - v ELSE v

\* C10 (as claimed): an accepted text gives number and sides in 1..9999 and
\* a modifier that is absent or of magnitude 1..9999.
C10_AcceptedRanges ==
    (pc = "parsed" /\ parsed.ok)
        => /\ parsed.settings.number \in 1..9999
           /\ parsed.settings.sides \in 1..9999
           /\ \/ parsed.settings.modifier = None
              \/ Magnitude(parsed.settings.modifier[1]) \in 1..9999

\* C10 (amended): an accepted text gives number and sides in 1..9999 and a
\* modifier that is absent or of magnitude 0..9999; "+0" and "-0" are
\* accepted as Some(0).
C10_AcceptedRangesZeroModifier ==
    (pc = "parsed" /\ parsed.ok)
        => /\ parsed.settings.number \in 1..9999
           /\ parsed.settings.sides \in 1..9999
           /\ \/ parsed.settings.modifier = None
              \/ Magnitude(parsed.settings.modifier[1]) \in 0..9999

C10_Witness ==
    /\ pc = "parsed" /\ parsed.ok
    /\ parsed.settings.number = 9999
    /\ parsed.settings.modifier = Some(0)

(***************************************************************************)
(* SpecRoundTrip: a RollSettings is formatted by format_parameters and the *)
(* text is parsed back.                                                    *)
(***************************************************************************)
MaxSmallValue == 11

\* 1..MaxSmallValue and the values where the number of digits changes.
RoundTripValues ==
    (1..MaxSmallValue) \cup {99, 100, 999, 1000, 9998, 9999}

RoundTripSettings ==
    {[number |-> n, sides |-> k, modifier |-> m, label |-> None] :
        n \in RoundTripValues, k \in RoundTripValues,
        m \in {None} \cup {Some(v) : v \in RoundTripValues}
                     \cup {Some(0 - v) : v \in RoundTripValues}}

InitRoundTrip ==
    /\ pc = "settings"
    /\ settings \in RoundTripSettings
    /\ input = <<>>
    /\ base = <<>>
    /\ parsed = NoParse
    /\ roll_type = "Straight"
    /\ results = NoResults
    /\ shown = <<>>
    /\ replies = <<>>
    /\ parsed_re = NoParse
    /\ send_json = FALSE

\* settings.to_string(), i.e. format_parameters
Format ==
    /\ pc = "settings"
    /\ input' = format_parameters(settings)
    /\ pc' = "received"
    /\ UNCHANGED <<base, parsed, settings, roll_type, results, shown, replies,
                 parsed_re, send_json>>

NextRoundTrip == Format \/ Parse

SpecRoundTrip == InitRoundTrip /\ [][NextRoundTrip]_vars

\* C4: parsing the text format_parameters produces for count and sides in
\* 1..9999 and a modifier that is absent or of magnitude 1..9999 succeeds
\* and gives back the count, the sides and the signed modifier, and no label.
C4_FormatParseRoundTrip ==
    pc = "parsed"
        => /\ parsed.ok
           /\ parsed.settings.number = settings.number
           /\ parsed.settings.sides = settings.sides
           /\ parsed.settings.modifier = settings.modifier
           /\ parsed.settings.label = None

C4_Witness ==
    /\ pc = "parsed"
    /\ settings.number = 9999 /\ settings.sides = 1000
    /\ settings.modifier = Some(0 - 9999)
    /\ input = <<"9", "9", "9", "9", "d", "1", "0", "0", "0",
                 " ", "-", " ", "9", "9", "9", "9">>
    /\ parsed.ok /\ parsed.settings.modifier = Some(0 - 9999)

(***************************************************************************)
(* Sample dice expressions that parse_roll accepts with no label.          *)
(***************************************************************************)
SampleTexts ==
    {count \o <<sep>> \o sides \o modifier :
        count \in {<<"7">>, <<"9", "9", "9", "9">>},
        sep \in {"d", "D"},
        sides \in {<<"2", "0">>, <<"9", "9", "9", "9">>},
        modifier \in {<<>>, <<"+", "3">>, <<"-", "9", "9", "9", "9">>}}

(***************************************************************************)
(* SpecWhitespace: whitespace is inserted into a sample expression, at any *)
(* position, before it is parsed.                                          *)
(***************************************************************************)
MaxInserted == 2

InsertChars == {" ", "\t", "\n"}

InsertAt(s, pos, c) == SubSeq(s, 1, pos) \o <<c>> \o Drop(s, pos)

InitWhitespace ==
    /\ pc = "received"
    /\ base \in SampleTexts
    /\ input = base
    /\ parsed = NoParse
    /\ settings = NoSettings
    /\ roll_type = "Straight"
    /\ results = NoResults
    /\ shown = <<>>
    /\ replies = <<>>
    /\ parsed_re = NoParse
    /\ send_json = FALSE

InsertWhitespace ==
    /\ pc = "received"
    /\ Len(input) < Len(base) + MaxInserted
    /\ \E pos \in 0..Len(input), c \in InsertChars : input' = InsertAt(input, pos, c)
    /\ UNCHANGED <<pc, base, parsed, settings, roll_type, results, shown, replies,
                 parsed_re, send_json>>

NextWhitespace == InsertWhitespace \/ Parse

SpecWhitespace == InitWhitespace /\ [][NextWhitespace]_vars

\* C8: if a text is accepted with no label, the text with whitespace (space,
\* tab, newline) inserted at any positions is accepted with the same count,
\* sides and modifier and no label.
C8_WhitespaceInsensitive ==
    (pc = "parsed" /\ parse_roll(base).ok /\ parse_roll(base).settings.label = None)
        => /\ parsed.ok
           /\ parsed.settings = parse_roll(base).settings

C8_Witness ==
    /\ pc = "parsed"
    /\ parse_roll(base).ok /\ parse_roll(base).settings.label = None
    /\ Len(input) = Len(base) + MaxInserted
    /\ input[1] \in Digits /\ input[2] \in InsertChars /\ input[3] \in Digits
    /\ input[Len(input)] \in InsertChars
    /\ parsed.ok /\ parsed.settings.number = 9999
    /\ parsed.settings.modifier # None

(***************************************************************************)
(* SpecLabel: a sample expression followed by any short text is parsed.    *)
(***************************************************************************)
MaxTailLen == 3

TailAlphabet == {"x", " ", "\n", "\f", "+", "-", "0", "d"}

\* Every text over an alphabet of at most n characters.
TextsUpTo(alphabet, n) == UNION {[1..k -> alphabet] : k \in 0..n}

InitLabel ==
    /\ pc = "received"
    /\ base \in SampleTexts
    /\ input \in {base \o tail : tail \in TextsUpTo(TailAlphabet, MaxTailLen)}
    /\ parsed = NoParse
    /\ settings = NoSettings
    /\ roll_type = "Straight"
    /\ results = NoResults
    /\ shown = <<>>
    /\ replies = <<>>
    /\ parsed_re = NoParse
    /\ send_json = FALSE

NextLabel == Parse

SpecLabel == InitLabel /\ [][NextLabel]_vars

\* The text with its leading and trailing whitespace removed.
Inked(t) == {i \in 1..Len(t) : t[i] \notin TrimChars}

Trimmed(t) ==
    IF Inked(t) = {} THEN <<>>
    ELSE SubSeq(t, CHOOSE i \in Inked(t) : \A j \in Inked(t) : i <= j,
                   CHOOSE i \in Inked(t) : \A j \in Inked(t) : i >= j)

\* The text goes on with the number that `w` ends with: a digit comes next,
\* or a sign and a digit when `w` has no modifier yet.
ContinuesNumber(w, rest) ==
    LET r == Squeezed(rest)
    IN  \/ r # <<>> /\ r[1] \in Digits
        \/ w.modifier = <<>> /\ Len(r) >= 2 /\ r[1] \in {"+", "-"} /\ r[2] \in Digits

\* Where the count, separator, sides and optional modifier end in a text.
SplitPoints(text) ==
    {p \in 1..Len(text) :
        LET w == Written(SubSeq(text, 1, p))
        IN  /\ text[p] \notin MultispaceChars
            /\ WellFormed(w) /\ w.tail = <<>>
            /\ ~ContinuesNumber(w, Drop(text, p))}

\* C9: for an accepted text, the label is the trimmed text left after the
\* count, separator, sides and optional modifier when that is not empty and
\* None otherwise, never the empty text, and count, sides and modifier are
\* those of the text without the leftover.
C9_LabelIsTrimmedLeftover ==
    (pc = "parsed" /\ parsed.ok)
        => /\ Cardinality(SplitPoints(input)) = 1
           /\ \A p \in SplitPoints(input) :
                LET left  == Drop(input, p)
                    alone == parse_roll(SubSeq(input, 1, p))
                IN  /\ parsed.settings.label =
                          (IF Trimmed(left) = <<>> THEN None ELSE Some(Trimmed(left)))
                    /\ parsed.settings.label # Some(<<>>)
                    /\ alone.ok
                    /\ alone.settings.label = None
                    /\ parsed.settings.number = alone.settings.number
                    /\ parsed.settings.sides = alone.settings.sides
                    /\ parsed.settings.modifier = alone.settings.modifier

C9_Witness ==
    /\ pc = "parsed" /\ parsed.ok
    /\ parsed.settings.modifier = Some(3)
    /\ parsed.settings.label = Some(<<"x">>)
    /\ Len(input) = Len(base) + MaxTailLen
    /\ input[Len(input)] \in TrimChars

(***************************************************************************)
(* SpecAnyText: any short text over digits, separators, signs, whitespace  *)
(* and a letter is received and parsed.                                    *)
(***************************************************************************)
MaxTextLen == 5

TextAlphabet == {"0", "9", "d", "+", "-", " ", "x"}

InitAnyText ==
    /\ pc = "received"
    /\ input \in TextsUpTo(TextAlphabet, MaxTextLen)
    /\ base = <<>>
    /\ parsed = NoParse
    /\ settings = NoSettings
    /\ roll_type = "Straight"
    /\ results = NoResults
    /\ shown = <<>>
    /\ replies = <<>>
    /\ parsed_re = NoParse
    /\ send_json = FALSE

NextAnyText == Parse

SpecAnyText == InitAnyText /\ [][NextAnyText]_vars

\* C11: parse_roll returns on every text: either a RollSettings or one of
\* ParseError, CannotBeZero and TooBig; no expect() on a number conversion
\* fails.
C11_ParseRollTotal ==
    pc = "parsed"
        => \/ parsed.ok
           \/ parsed.err \in {"ParseError", "CannotBeZero", "TooBig"}

C11_Witness ==
    /\ pc = "parsed"
    /\ Len(input) = MaxTextLen
    /\ Written(input).sep /\ Written(input).sides = <<>>
    /\ input[Len(input)] \in {"+", "-"}
    /\ ~parsed.ok /\ parsed.err = "ParseError"

IsSuffix(t, text) == Len(t) <= Len(text) /\ t = Drop(text, Len(text) - Len(t))

\* C12 (as claimed): every error parse_roll returns carries a fragment of
\* the input text.
C12_ErrorCarriesFragment ==
    (pc = "parsed" /\ ~parsed.ok)
        => (parsed.text # None /\ IsSuffix(parsed.text[1], input))

\* C12 (amended): ParseError carries the unparsed rest of the input at the
\* point of failure and CannotBeZero carries the whole input; TooBig carries
\* no text.
C12_ErrorPayload ==
    (pc = "parsed" /\ ~parsed.ok)
        => /\ parsed.err = "ParseError"
                => (parsed.text # None /\ IsSuffix(parsed.text[1], input))
           /\ parsed.err = "CannotBeZero" => parsed.text = Some(input)
           /\ parsed.err = "TooBig" => parsed.text = None

C12_Witness ==
    /\ pc = "parsed" /\ ~parsed.ok
    /\ parsed.err = "CannotBeZero"
    /\ parsed.text = Some(input)
    /\ Len(input) > Len(Squeezed(input))
    /\ Overlong(Written(input))

(***************************************************************************)
(* SpecDisplay: a roll is made and rendered.  The long rolls have counts   *)
(* that put a list of one-character rolls just under each budget, or fill  *)
(* the four-digit field, with faces of 10 or the largest four-digit value; *)
(* the short rolls are those of SpecRoll with one-sided dice.              *)
(***************************************************************************)
MaxFieldValue == 10^MaxFieldDigits - 1

LongNumbers == {(DualBudget + 3) \div 4, (SingleBudget + 3) \div 4, MaxFieldValue}

\* Long rolls: of 10-sided and 9999-sided dice at the two lower counts, of
\* 9999-sided dice at the highest; no modifier or one of four digits.
LongSettings ==
    {s \in [number : LongNumbers, sides : {10, MaxFieldValue},
            modifier : {None, Some(0 - MaxFieldValue), Some(MaxFieldValue)},
            label : {None}] :
        s.number = MaxFieldValue => s.sides = MaxFieldValue}

\* Short rolls of one-sided dice: every draw is a tie.
ShortSettings == {s \in RollSettingsSet : s.sides = 1}

InitDisplay ==
    /\ pc = "settings"
    /\ settings \in LongSettings \cup ShortSettings
    /\ roll_type \in RollTypes
    /\ input = <<>>
    /\ base = <<>>
    /\ parsed = NoParse
    /\ results = NoResults
    /\ shown = <<>>
    /\ replies = <<>>
    /\ parsed_re = NoParse
    /\ send_json = FALSE

\* results.to_string()
Show ==
    /\ pc = "rolled"
    /\ shown' = RollResults_fmt(results)
    /\ pc' = "shown"
    /\ UNCHANGED <<input, base, parsed, settings, roll_type, results, replies,
                 parsed_re, send_json>>

NextDisplay == Roll \/ Show

SpecDisplay == InitDisplay /\ [][NextDisplay]_vars

Least(S) == CHOOSE x \in S : \A y \in S : x <= y

Greatest(S) == CHOOSE x \in S : \A y \in S : x >= y

Positions(text, c) == {i \in 1..Len(text) : text[i] = c}

\* The text between the parentheses of an attempt's line: the first pair of
\* the display for attempt one, the last for attempt two.
InParens(text, attempt) ==
    LET open  == Positions(text, "(")
        close == Positions(text, ")")
    IN  IF attempt = 1 THEN SubSeq(text, Least(open) + 1, Least(close) - 1)
        ELSE SubSeq(text, Greatest(open) + 1, Greatest(close) - 1)

\* The attempts of the session in `results`, by number.
AttemptNumbers == 1..(1 + Len(results.try_two))

\* The budget the display gives each attempt.
Budget == IF results.roll_type = "Straight" THEN SingleBudget ELSE DualBudget

\* The rolls of an attempt joined with " + ".
Joined(attempt) == format_results(Ref(results, attempt).roll)[1]

\* C13: with budget B (4000 for a single attempt, 2000 for each of two), a
\* joined roll list longer than B is shown inside the parentheses as its
\* first B characters followed by "..." (B + 3 characters), and a list of B
\* characters or fewer is shown whole.
C13_TruncationToBudget ==
    pc = "shown" =>
        \A a \in AttemptNumbers :
            LET inside == InParens(shown, a)
                joined == Joined(a)
            IN  IF Len(joined) > Budget
                THEN /\ inside = SubSeq(joined, 1, Budget) \o <<".", ".", ".">>
                     /\ Len(inside) = Budget + 3
                ELSE inside = joined

\* A two-attempt display where attempt one is exactly on the budget and shown
\* whole and attempt two is one character over and cut.
C13_Witness ==
    /\ pc = "shown"
    /\ results.roll_type # "Straight"
    /\ Len(Joined(1)) = DualBudget
    /\ InParens(shown, 1) = Joined(1)
    /\ Len(Joined(2)) = DualBudget + 1
    /\ Len(InParens(shown, 2)) = DualBudget + 3

(***************************************************************************)
(* The lines of a display and the winner of a session.                     *)
(***************************************************************************)
\* Line k of a text: what lies between its (k-1)th and kth line feeds.
Line(text, k) ==
    LET feeds == Positions(text, "\n")
        before(p) == Cardinality({q \in feeds : q < p})
        from == IF k = 1 THEN 1
                ELSE (CHOOSE p \in feeds : before(p) = k - 2) + 1
        to   == IF Cardinality(feeds) < k THEN Len(text)
                ELSE (CHOOSE p \in feeds : before(p) = k - 1) - 1
    IN  SubSeq(text, from, to)

StartsWith(text, prefix) ==
    Len(text) >= Len(prefix) /\ SubSeq(text, 1, Len(prefix)) = prefix

EndsWith(text, suffix) ==
    /\ Len(text) >= Len(suffix)
    /\ SubSeq(text, Len(text) - Len(suffix) + 1, Len(text)) = suffix

\* The line of an attempt in a two-attempt display: line 2 or line 3.
AttemptLine(attempt) == Line(shown, attempt + 1)

Struck(line) ==
    StartsWith(line, <<"<", "s", ">">>) /\ EndsWith(line, <<"<", "/", "s", ">">>)

TwoShown == pc = "shown" /\ results.roll_type # "Straight"

\* C14 (as claimed): in an Advantage or Disadvantage display exactly one of
\* the two attempt lines is wrapped in <s>...</s>, the line of the losing
\* attempt; the line of the attempt result() returns is plain.
C14_LoserStruck ==
    TwoShown =>
        LET winner == result(results).attempt
        IN  /\ ~Struck(AttemptLine(winner))
            /\ Struck(AttemptLine(3 - winner))

\* C15: try_two is present exactly when the mode is not Straight, so none of
\* the expect("to be some") of result(), results_index() and Display meets
\* None; for Straight, result() is try_one and results_index() is 1.
C15_SecondAttemptPresence ==
    pc \in {"rolled", "shown"} =>
        /\ (results.try_two # None) <=> (results.roll_type # "Straight")
        /\ results.roll_type = "Straight"
             => /\ result(results) = Ref(results, 1)
                /\ results_index(results) = 1
                /\ pc = "shown" => shown = Roll_fmt(results.try_one)

C15_Witness ==
    /\ pc = "shown"
    /\ results.roll_type = "Straight"
    /\ results.try_two = None
    /\ settings.number = MaxNumber
    /\ StartsWith(Line(shown, 2), <<"R", "o", "l", "l", ":">>)

\* C19 (as claimed): results_index() is the number of the attempt result()
\* returns, in every mode and also when the two totals are equal.
C19_IndexAgreesWithResult ==
    pc \in {"rolled", "shown"} => results_index(results) = result(results).attempt

(***************************************************************************)
(* The length of a display.                                                *)
(***************************************************************************)
\* The limit the comment of impl Display for Roll records.
TelegramLimit == 9500

\* The length of a text in bytes: the die emoji is four bytes long.
Utf8Len(text) == Len(text) + 3 * Cardinality(Positions(text, DIE))

\* C17: for every count, sides and modifier of up to four digits, every mode
\* and every roll, the whole display (parameters line, attempt lines with
\* their markers, final line) is at most 9500 long.
C17_DisplayWithinLimit ==
    pc = "shown" => Utf8Len(shown) <= TelegramLimit

\* The longest displays: two attempts of 9999 four-digit rolls, both cut,
\* under the longest parameters.
C17_Witness ==
    /\ pc = "shown"
    /\ results.roll_type = "Disadvantage"
    /\ settings.number = MaxFieldValue
    /\ settings.sides = MaxFieldValue
    /\ settings.modifier = Some(0 - MaxFieldValue)
    /\ \A a \in AttemptNumbers :
          /\ Len(Joined(a)) = 4 * MaxFieldValue + 3 * (MaxFieldValue - 1)
          /\ Len(InParens(shown, a)) = DualBudget + 3
    /\ Utf8Len(shown) > 2 * DualBudget

(***************************************************************************)
(* The order of the zero check and the overflow check.                     *)
(***************************************************************************)
\* C18 (as claimed): CannotBeZero is returned only for texts that would
\* otherwise parse: a text with a zero count or sides that also has a field
\* of more than four digits is rejected with another error.
C18_ZeroOnlyWhenOtherwiseValid ==
    (pc = "parsed" /\ ~parsed.ok /\ parsed.err = "CannotBeZero")
        => InGrammar(Written(input))

(***************************************************************************)
(* SpecBoth: one text without a label is parsed by the combinator parser   *)
(* and then by the regular-expression parser.  The texts are the dice      *)
(* expressions of SpecParse, tight, spaced, or with a form feed after the  *)
(* first character, and every short text over digits, 'd', 'D', signs and  *)
(* ASCII whitespace.                                                       *)
(***************************************************************************)
\* u8::is_ascii_whitespace holds of space, tab, line feed, form feed and
\* carriage return; three of them are followed.
PlainAlphabet == {"0", "9", "d", "D", "+", "-", " ", "\n", "\f"}

BothInputs(cores) ==
    TextsUpTo(PlainAlphabet, MaxTextLen - 1)
    \cup UNION {Layouts(core) \cup {InsertAt(core, 1, "\f")} : core \in cores}

InitBoth ==
    /\ pc = "received"
    /\ input \in BothInputs(Cores(Shapes))
    /\ base = <<>>
    /\ parsed = NoParse
    /\ settings = NoSettings
    /\ roll_type = "Straight"
    /\ results = NoResults
    /\ shown = <<>>
    /\ replies = <<>>
    /\ parsed_re = NoParse
    /\ send_json = FALSE

\* RollSettings::from_str(input) of dice.rs
ParseRegex ==
    /\ pc = "parsed"
    /\ parsed_re' = regex_parse_roll(input)
    /\ pc' = "both"
    /\ UNCHANGED <<input, base, parsed, settings, roll_type, results, shown, replies,
                   send_json>>

NextBoth == Parse \/ ParseRegex

SpecBoth == InitBoth /\ [][NextBoth]_vars

NotAsciiSpace(c) == c \notin {" ", "\t", "\n", "\f", "\r"}

\* A text without a label: not a dice expression followed by further text.
LabelFree(text) ==
    LET w == Written(SelectSeq(text, NotAsciiSpace))
    IN  ~(WellFormed(w) /\ w.tail # <<>>)

\* C20 (as claimed): on a text without a label over digits, 'd', 'D', signs
\* and ASCII whitespace the regular-expression parser accepts exactly when
\* the combinator parser accepts with no label, both then give the same
\* number, sides and modifier, and either returns CannotBeZero exactly when
\* the other does.
C20_ParsersAgree ==
    (pc = "both" /\ LabelFree(input)) =>
        /\ parsed_re.ok <=> (parsed.ok /\ parsed.settings.label = None)
        /\ parsed_re.ok =>
              /\ parsed_re.settings.number = parsed.settings.number
              /\ parsed_re.settings.sides = parsed.settings.sides
              /\ parsed_re.settings.modifier = parsed.settings.modifier
        /\ (~parsed_re.ok /\ parsed_re.err = "CannotBeZero")
              <=> (~parsed.ok /\ parsed.err = "CannotBeZero")

(***************************************************************************)
(* main.rs: handle_roll.  main.rs holds its own copy of the regular-       *)
(* expression parser and rolls once; its display is that of a single Roll. *)
(***************************************************************************)
silly_text ==
    <<"A", "s", " ", "a", " ", "n", "o", "n", "-", "l", "a", "n", "g", "u",
          "a", "g", "e", " ", "n", "o", "n", "-", "m", "o", "d", "e", "l", ",",
          " ", "I", " ", "j", "u", "s", "t", " ", "s", "p", "i", "t", " ", "o",
          "u", "t", " ", "w", "h", "a", "t", " ", "w", "a", "s", " ", "w", "r",
          "i", "t", "t", "e", "n", " ", "i", "n", " ", "m", "y", " ", "c", "o",
          "d", "e", " ", "a", "n", "d", " ", "I", " ", "c", "a", "n", " ", "n",
          "e", "v", "e", "r", " ", "v", "a", "r", "y", ".">>

\* The emoji of the match arm "eye" | "eyes" | ..., one element each.
EyeEmoji == {"eyes-emoji", "eye-emoji", "eye-in-speech-bubble-emoji"}

SpecialWords == {<<"e", "y", "e">>, <<"e", "y", "e", "s">>} \cup {<<e>> : e \in EyeEmoji}

BOMB == "bomb"

\* #[error("Invalid roll format: {0}")] and
\* #[error("Number of dices and dice sides cannot be zero: {0}")]
error_display(e) ==
    IF e.err = "InvalidFormat"
    THEN <<"I", "n", "v", "a", "l", "i", "d", " ", "r", "o", "l", "l", " ", "f",
          "o", "r", "m", "a", "t", ":", " ">> \o e.text[1]
    ELSE <<"N", "u", "m", "b", "e", "r", " ", "o", "f", " ", "d", "i", "c", "e",
          "s", " ", "a", "n", "d", " ", "d", "i", "c", "e", " ", "s", "i", "d",
          "e", "s", " ", "c", "a", "n", "n", "o", "t", " ", "b", "e", " ", "z",
          "e", "r", "o", ":", " ">>
         \o e.text[1]

\* Mutant: the diagnostic leaves the error out.
diagnostic_without_error(e) ==
    silly_text
    \o <<" ", "\n", "\n", "I", "n", " ", "o", "t", "h", "e", "r", " ", "w", "o",
          "r", "d", "s", ",", " ", "i", "t", " ", "i", "s", " ", "l", "i", "k",
          "e", "l", "y", " ", "y", "o", "u", " ", "h", "a", "v", "e", " ", "m",
          "a", "d", "e", " ", "a", " ", "m", "i", "s", "t", "a", "k", "e", " ",
          "a", "n", "d", " ", "I", " ", "d", "e", "f", "i", "n", "i", "t", "e",
          "l", "y", " ", "c", "a", "n", "n", "o", "t", " ", "h", "e", "l", "p",
          " ", "y", "o", "u", " ", "t", "o", " ", "f", "i", "x", " ", "i", "t",
          ".", " ", "T", "r", "y", " ", "a", "g", "a", "i", "n", "!", "\n",
          "\n">>
    \o <<BOMB>> \o <<" ", "<", "c", "o", "d", "e", ">">> \o <<"<", "/", "c", "o", "d", "e", ">", " ">> \o <<BOMB>>

\* format!("{} \n\nIn other words, ... Try again!\n\n... <code>{}</code> ...", silly_text, e)
diagnostic(e) ==
    silly_text
    \o <<" ", "\n", "\n", "I", "n", " ", "o", "t", "h", "e", "r", " ", "w", "o",
          "r", "d", "s", ",", " ", "i", "t", " ", "i", "s", " ", "l", "i", "k",
          "e", "l", "y", " ", "y", "o", "u", " ", "h", "a", "v", "e", " ", "m",
          "a", "d", "e", " ", "a", " ", "m", "i", "s", "t", "a", "k", "e", " ",
          "a", "n", "d", " ", "I", " ", "d", "e", "f", "i", "n", "i", "t", "e",
          "l", "y", " ", "c", "a", "n", "n", "o", "t", " ", "h", "e", "l", "p",
          " ", "y", "o", "u", " ", "t", "o", " ", "f", "i", "x", " ", "i", "t",
          ".", " ", "T", "r", "y", " ", "a", "g", "a", "i", "n", "!", "\n",
          "\n">>
    \o <<BOMB>> \o <<" ", "<", "c", "o", "d", "e", ">">> \o error_display(e) \o <<"<", "/", "c", "o", "d", "e", ">", " ">> \o <<BOMB>>

\* A request made of the bot: send_dice, send_message or send_document.
Request(kind, text) == [kind |-> kind, text |-> text]

(***************************************************************************)
(* SpecHandle: one /roll or /roll_with_data command is handled.  The texts *)
(* are the empty text, the special words, every text of fewer than         *)
(* MaxTextLen - 1 characters and some longer ones.  Every request awaited  *)
(* completes, delivered or not; a request that fails ends the handler.     *)
(***************************************************************************)
LongerTexts ==
    {<<" ", "e", "y", "e">>, <<"e", "y", "e", "s", " ">>,
     <<"0", "d", "9", "+", "9">>, <<"0", " ", "d", " ", "9">>,
     <<"9", "d", "0", "0", "0", "0", "0">>,
     <<"9", "9", "9", "9", "9", "d", "9">>, <<"9", "d", "9", " ", "x">>,
     <<"9", " ", "d", " ", "9", " ", "-", " ", "9">>}

HandleInputs(short) == short \cup SpecialWords \cup LongerTexts

InitHandle ==
    /\ pc = "received"
    /\ input \in HandleInputs(TextsUpTo(TextAlphabet, MaxTextLen - 2))
    /\ send_json \in BOOLEAN
    /\ base = <<>>
    /\ parsed = NoParse
    /\ settings = NoSettings
    /\ roll_type = "Straight"
    /\ results = NoResults
    /\ shown = <<>>
    /\ replies = <<>>
    /\ parsed_re = NoParse

\* match input: the arm taken, up to its first await.
Match ==
    /\ pc = "received"
    /\ IF input = <<>>
       THEN pc' = "send_dice" /\ UNCHANGED <<parsed_re, settings, results>>
       ELSE IF input \in SpecialWords
       THEN pc' = "send_silly" /\ UNCHANGED <<parsed_re, settings, results>>
       ELSE /\ parsed_re' = regex_parse_roll(input)
            /\ IF parsed_re'.ok
               THEN /\ settings' = parsed_re'.settings
                    /\ \E samples \in Draws(parsed_re'.settings) :
                          results' = RollResults_new(parsed_re'.settings, "Straight",
                                                     samples, samples)
                    /\ pc' = "send_roll"
               ELSE /\ pc' = "send_error"
                    /\ UNCHANGED <<settings, results>>
    /\ UNCHANGED <<input, base, parsed, roll_type, shown, replies, send_json>>

\* bot.send_dice(msg.chat.id).await?
SendDice ==
    /\ pc = "send_dice"
    /\ replies' = Append(replies, Request("dice", <<>>))
    /\ pc' = "done"
    /\ UNCHANGED <<input, base, parsed, settings, roll_type, results, shown,
                   parsed_re, send_json>>

\* bot.send_message(msg.chat.id, silly_text).await?
SendSilly ==
    /\ pc = "send_silly"
    /\ replies' = Append(replies, Request("message", silly_text))
    /\ pc' = "done"
    /\ UNCHANGED <<input, base, parsed, settings, roll_type, results, shown,
                   parsed_re, send_json>>

\* bot.send_message(msg.chat.id, results.to_string()).await?
SendRoll ==
    /\ pc = "send_roll"
    /\ shown' = RollResults_fmt(results)
    /\ replies' = Append(replies, Request("message", shown'))
    /\ \E delivered \in BOOLEAN :
          pc' = IF delivered /\ send_json THEN "send_json" ELSE "done"
    /\ UNCHANGED <<input, base, parsed, settings, roll_type, results,
                   parsed_re, send_json>>

\* serde_json::to_string_pretty(&results), then send_document of roll.json,
\* or the message of the Err arm.
SendJson ==
    /\ pc = "send_json"
    /\ \E converted \in BOOLEAN :
          replies' = Append(replies,
                            IF converted
                            THEN Request("document", <<"roll.json">>)
                            ELSE Request("message", <<"Could not convert results to JSON">>))
    /\ pc' = "done"
    /\ UNCHANGED <<input, base, parsed, settings, roll_type, results, shown,
                   parsed_re, send_json>>

\* bot.send_message(msg.chat.id, format!(..., silly_text, e)).await?
SendError ==
    /\ pc = "send_error"
    /\ replies' = Append(replies, Request("message", diagnostic(parsed_re)))
    /\ pc' = "done"
    /\ UNCHANGED <<input, base, parsed, settings, roll_type, results, shown,
                   parsed_re, send_json>>

NextHandle == Match \/ SendDice \/ SendSilly \/ SendRoll \/ SendJson \/ SendError

SpecHandle == InitHandle /\ [][NextHandle]_vars /\ WF_vars(NextHandle)

\* The text occurs in the other as a contiguous part.
Contains(text, part) ==
    \E k \in 0..(Len(text) - Len(part)) : SubSeq(text, k + 1, k + Len(part)) = part

\* The command's text is not empty, is no special word and does not parse.
FailsToParse ==
    input # <<>> /\ input \notin SpecialWords /\ ~regex_parse_roll(input).ok

\* C16: for a text that is not empty, is no special word and fails to
\* parse, handle_roll finishes after exactly one request, a message holding
\* the text of the parse error: no dice are rolled, no roll message and no
\* JSON document is sent, and the parse is not made again.
C16_FailedParseOneDiagnostic ==
    /\ [](FailsToParse =>
            /\ results = NoResults
            /\ Len(replies) <= 1
            /\ pc = "done" =>
                  /\ Len(replies) = 1
                  /\ replies[1].kind = "message"
                  /\ Contains(replies[1].text, error_display(parsed_re))
                  /\ Contains(replies[1].text, parsed_re.text[1]))
    /\ [][FailsToParse =>
            /\ pc = "received" => pc' = "send_error"
            /\ pc = "send_error" => pc' = "done" /\ parsed_re' = parsed_re
            /\ pc # "done"]_vars
    /\ (FailsToParse /\ pc = "received") ~> (pc = "done")

C16_Witness ==
    /\ FailsToParse
    /\ pc = "done"
    /\ send_json
    /\ parsed_re.err = "CannotBeZero"
    /\ replies = <<Request("message", diagnostic(parsed_re))>>
    /\ Len(input) > Len(parsed_re.text[1])

====
